---- MODULE Spec2Model ----
(***************************************************************************)
(* Model of lightnet's training engine:                                    *)
(*   src/lightnet/engine/_parameter.py  HyperParameters (Parameter Store)  *)
(*   src/lightnet/engine/engine.py      Engine (orchestrator, hooks,       *)
(*                                      SIGINT handling)                   *)
(*                                                                         *)
(* Encodings.                                                              *)
(*   None is the empty tuple, Some(x) the one-element tuple <<x>>.         *)
(*   An attribute name or keyword is [us, base]: `us` leading underscores  *)
(*   followed by the text `base`, so key.startswith('_') is us > 0 and     *)
(*   key[1:] drops one underscore.                                         *)
(*   A store (a HyperParameters instance) is the function vars(self):      *)
(*   attribute name -> value.  Networks, optimizers and schedulers are     *)
(*   object ids; `heap` maps an object id to its state_dict() value.       *)
(*   A Python dict that is iterated (a hook table, kwargs) is a sequence   *)
(*   in insertion order.                                                   *)
(***************************************************************************)
EXTENDS Integers, Sequences, FiniteSets, TLC

VARIABLES
    phase,      \* lifecycle of the session's store: "new", "built", "raised"
    args,       \* arguments of the HyperParameters(...) call that was made
    params,     \* the store S (Engine.params); <<>> before construction
    fresh,      \* a second, fresh store T; <<>> before construction
    heap,       \* object id -> state (what state_dict() returns)
    disk,       \* None, or Some(record written by torch.save)
    loaded,     \* TRUE once T.load(path) has returned
    pc,         \* position of Engine.__call__
    loader,     \* len(self.dataloader)
    idx,        \* enumerate index of the batch loop
    sigint,     \* Engine.sigint
    signals,    \* number of SIGINT signals delivered so far
    notices,    \* number of 'SIGINT caught' lines logged
    quitRet,    \* value returned by the last self.quit() call
    hooks,      \* the four class-level hook tables
    regs,       \* the registrations made, <<table, interval, callback>>, in order
    log,        \* calls made by Engine.__call__, in order
    own,        \* the engine's other instance attributes (vars(engine) apart
                \* from params, dataloader, sigint and the logger)
    kind,       \* the Engine subclass the engine is an instance of
    regVia,     \* the subclass each registration of `regs` was made through
    handler,    \* whose __sigint_handler is the process's SIGINT handler
    other,      \* None, or Some(sigint flag) of a second engine of the process
    writes,     \* the attribute writes made on the engine from outside, in order
    quitSaw     \* self.sigint as the last self.quit() call found it

storeVars == <<phase, args, params, fresh, heap, disk, loaded>>
hostVars == <<own, kind, regVia, handler, other, writes, quitSaw>>
engineVars == <<pc, loader, idx, sigint, signals, notices, quitRet, hooks, regs, log,
                own, kind, regVia, handler, other, writes, quitSaw>>
vars == <<phase, args, params, fresh, heap, disk, loaded,
          pc, loader, idx, sigint, signals, notices, quitRet, hooks, regs, log,
          own, kind, regVia, handler, other, writes, quitSaw>>

(***************************************************************************)
(* Bounds of the model.                                                    *)
(***************************************************************************)
\* SpecCtor: batch_size in 1..MaxBatchSize, mini_batch_size up to one more
MaxBatchSize == 6
\* SpecCtor: number of extra keyword arguments
MaxCtorKwargs == 2
\* SpecStore: batch_size and mini_batch_size of the saved store
MaxStoreBatch == 2
\* SpecStore: number of extra keyword arguments of each store
MaxStoreKwargs == 1
\* SpecStore: how far the counters of S are advanced before the save
MaxCount == 1
\* Spec: len(dataloader) is in 0..MaxLoader
MaxLoader == 10
\* Spec: batch_subdivisions is in 1..MaxSubdivisions (and 8 / 4)
MaxSubdivisions == 3
\* Spec: quit() returns True at the epoch checkpoint of epoch MaxEpoch ...
MaxEpoch == 5
\* ... or once epoch * len(dataloader) has reached MaxWork
MaxWork == 10
\* Spec: a hook is registered at an interval in 1..MaxInterval
MaxInterval == 3
\* number of SIGINT signals delivered
MaxSignals == 2
\* SpecDispatch: registrations, intervals and dispatched counter values
MaxRegs == 2
MaxDispatchInterval == 2
MaxValue == 6
\* SpecBridge: writes made on the engine
MaxWrites == 2
\* SpecSignal: len(dataloader)
MaxSignalLoader == 2

(***************************************************************************)
(* Values and names.                                                       *)
(***************************************************************************)
None == <<>>

Some(x) == <<x>>

Name(b) == [us |-> 0, base |-> b]

Key(u, b) == [us |-> u, base |-> b]

\* self.__no_serialize inside class HyperParameters is name-mangled
NoSerializeAttr == Key(1, "HyperParameters__no_serialize")

\* names hasattr() finds on the class: the methods and the computed property
ClassAttrs == {Name("batch_subdivisions"), Name("save"), Name("load"), Name("to")}

StartsWithUnderscore(key) == key.us > 0

StripFirst(key) == [key EXCEPT !.us = @ - 1]

InSeq(x, s) == \E i \in 1..Len(s) : s[i] = x

RECURSIVE RemoveFirst(_, _)
\* list.remove(x): drops the first occurrence
RemoveFirst(s, x) ==
    IF s = <<>> THEN <<>>
    ELSE IF Head(s) = x THEN Tail(s)
    ELSE <<Head(s)>> \o RemoveFirst(Tail(s), x)

HasAttr(self, name) == name \in DOMAIN self \/ name \in ClassAttrs

SetAttr(self, name, val) == (name :> val) @@ self

(***************************************************************************)
(* HyperParameters.__init__                                                *)
(***************************************************************************)
\* mutant: the divisibility test with its operands swapped
MiniBatchSizeSwapped(batch_size, mini_batch_size) ==
    IF mini_batch_size = None \/ mini_batch_size[1] > batch_size
    THEN [raised |-> FALSE, value |-> batch_size]
    ELSE IF mini_batch_size[1] % batch_size # 0
    THEN [raised |-> TRUE, value |-> 0]
    ELSE [raised |-> FALSE, value |-> mini_batch_size[1]]

\* lines 50-55: the stored mini_batch_size, or the ValueError
MiniBatchSize(batch_size, mini_batch_size) ==
    IF mini_batch_size = None \/ mini_batch_size[1] > batch_size
    THEN [raised |-> FALSE, value |-> batch_size]
    ELSE IF batch_size % mini_batch_size[1] # 0
    THEN [raised |-> TRUE, value |-> 0]
    ELSE [raised |-> FALSE, value |-> mini_batch_size[1]]

\* lines 57-65: None and iterables are kept, a single object is wrapped
Normalize(arg) ==
    IF arg = None \/ arg[1].iterable
    THEN (IF arg = None THEN None ELSE Some(arg[1].obj))
    ELSE Some(<<arg[1].obj>>)

\* lines 69-81: one iteration of the kwargs loop
ApplyKwarg(self, kv) ==
    LET pre == StartsWithUnderscore(kv[1])
        key == IF pre THEN StripFirst(kv[1]) ELSE kv[1]
        ns  == IF pre THEN Append(self[NoSerializeAttr], key)
                      ELSE self[NoSerializeAttr]
        s1  == SetAttr(self, NoSerializeAttr, ns)
    IN  IF ~HasAttr(s1, key)
        THEN SetAttr(s1, key, kv[2])
        ELSE IF InSeq(key, ns)
             THEN SetAttr(s1, NoSerializeAttr, RemoveFirst(ns, key))
             ELSE s1

RECURSIVE ApplyKwargs(_, _)
ApplyKwargs(self, kwargs) ==
    IF kwargs = <<>> THEN self
    ELSE ApplyKwargs(ApplyKwarg(self, Head(kwargs)), Tail(kwargs))

HyperParameters(network, optimizers, schedulers, batch_size, mini_batch_size, kwargs) ==
    LET mbs == MiniBatchSize(batch_size, mini_batch_size)
        s0 == (Name("network") :> network)
              @@ (Name("batch_size") :> batch_size)
              @@ (Name("batch") :> 0)
              @@ (Name("epoch") :> 0)
        s1 == SetAttr(s0, Name("mini_batch_size"), mbs.value)
        s2 == SetAttr(s1, Name("optimizers"), Normalize(optimizers))
        s3 == SetAttr(s2, Name("schedulers"), Normalize(schedulers))
        s4 == SetAttr(s3, NoSerializeAttr,
                      <<Name("network"), Name("optimizers"), Name("schedulers")>>)
    IN  IF mbs.raised
        THEN [raised |-> TRUE, self |-> <<>>]
        ELSE [raised |-> FALSE, self |-> ApplyKwargs(s4, kwargs)]

\* mutant: the quotient taken the wrong way round
batch_subdivisionsSwapped(self) == self[Name("mini_batch_size")] \div self[Name("batch_size")]

\* the batch_subdivisions property
batch_subdivisions(self) == self[Name("batch_size")] \div self[Name("mini_batch_size")]

(***************************************************************************)
(* HyperParameters.save / load                                             *)
(***************************************************************************)
StateDicts(objs, h) == [i \in 1..Len(objs) |-> h[objs[i]]]

Pop(state, key) == [k \in DOMAIN state \ {key} |-> state[k]]

\* mutant: the record keeps the fields listed in __no_serialize
saveAll(self, h) ==
    LET state1 == SetAttr(self, Name("network"), h[self[Name("network")]])
        state2 == IF self[Name("optimizers")] # None
                  THEN SetAttr(state1, Name("optimizers"),
                               StateDicts(self[Name("optimizers")][1], h))
                  ELSE state1
    IN  IF self[Name("schedulers")] # None
        THEN SetAttr(state2, Name("schedulers"),
                     StateDicts(self[Name("schedulers")][1], h))
        ELSE state2

\* the record handed to torch.save
save(self, h) ==
    LET ns == self[NoSerializeAttr]
        state0 == [k \in {a \in DOMAIN self : ~InSeq(a, ns)} |-> self[k]]
        state1 == SetAttr(state0, Name("network"), h[self[Name("network")]])
        state2 == IF self[Name("optimizers")] # None
                  THEN SetAttr(state1, Name("optimizers"),
                               StateDicts(self[Name("optimizers")][1], h))
                  ELSE state1
    IN  IF self[Name("schedulers")] # None
        THEN SetAttr(state2, Name("schedulers"),
                     StateDicts(self[Name("schedulers")][1], h))
        ELSE state2

\* load_state_dict on each object of `objs`, positionally
LoadStateDicts(objs, snaps, h) ==
    [o \in DOMAIN h |->
        IF \E i \in 1..Len(objs) : objs[i] = o
        THEN snaps[CHOOSE i \in 1..Len(objs) : objs[i] = o /\
                       \A j \in 1..Len(objs) : objs[j] = o => j <= i]
        ELSE h[o]]

\* load: [raised, self, heap]; a missing key or a short list raises
load(self, h, state) ==
    LET h1 == [h EXCEPT ![self[Name("network")]] = state[Name("network")]]
        st1 == Pop(state, Name("network"))
        opts == self[Name("optimizers")]
        optBad == opts # None /\
                  (Name("optimizers") \notin DOMAIN st1 \/
                   Len(st1[Name("optimizers")]) < Len(opts[1]))
        h2 == IF opts # None /\ ~optBad
              THEN LoadStateDicts(opts[1], st1[Name("optimizers")], h1) ELSE h1
        st2 == IF opts # None THEN Pop(st1, Name("optimizers")) ELSE st1
        scheds == self[Name("schedulers")]
        schedBad == scheds # None /\
                    (Name("schedulers") \notin DOMAIN st2 \/
                     Len(st2[Name("schedulers")]) < Len(scheds[1]))
        h3 == IF scheds # None /\ ~schedBad
              THEN LoadStateDicts(scheds[1], st2[Name("schedulers")], h2) ELSE h2
        st3 == IF scheds # None THEN Pop(st2, Name("schedulers")) ELSE st2
    IN  IF optBad THEN [raised |-> TRUE, self |-> self, heap |-> h1]
        ELSE IF schedBad THEN [raised |-> TRUE, self |-> self, heap |-> h2]
        ELSE [raised |-> FALSE, self |-> st3 @@ self, heap |-> h3]

(***************************************************************************)
(* Inputs.                                                                 *)
(***************************************************************************)
\* (batch_size, mini_batch_size) with mini_batch_size absent or in 1..maxMbs
BatchArgs(maxBs, maxMbs) ==
    {<<bs, mbs>> : bs \in 1..maxBs,
                   mbs \in {None} \cup {Some(m) : m \in 1..maxMbs}}

\* ordered kwargs: up to n pairs <<key, value>> with distinct keys
KwargSeqs(keys, vals, n) ==
    UNION {{s \in [1..m -> keys \X vals] :
               \A i, j \in 1..m : s[i][1] = s[j][1] => i = j} : m \in 0..n}

\* optimizers argument: None, a single optimizer, or a list of two
OptArgs(o1, o2) ==
    {None, Some([iterable |-> FALSE, obj |-> o1]),
     Some([iterable |-> TRUE, obj |-> <<o1, o2>>])}

\* schedulers argument: None or a single scheduler
SchedArgs(s1) == {None, Some([iterable |-> FALSE, obj |-> s1])}

CtorKeys == {Key(0, "x"), Key(1, "x"), Key(1, "y"), Key(1, "mini_batch_size")}

StoreKeys == {Key(0, "x"), Key(1, "x"), Key(1, "y")}

\* SpecCtor: mini_batch_size reaches past batch_size
CtorBatchArgs == BatchArgs(MaxBatchSize, MaxBatchSize + 1)

CtorKwargs == KwargSeqs(CtorKeys, {1, 2}, MaxCtorKwargs)

CtorShapes == OptArgs("optS1", "optS2") \X SchedArgs("schS1")

\* SpecStore: the saved store S
StoreBatchArgs == BatchArgs(MaxStoreBatch, MaxStoreBatch)

StoreKwargs == KwargSeqs(StoreKeys, {1}, MaxStoreKwargs)

StoreShapes ==
    {<<None, None>>,
     <<Some([iterable |-> FALSE, obj |-> "optS1"]), Some([iterable |-> FALSE, obj |-> "schS1"])>>,
     <<Some([iterable |-> TRUE, obj |-> <<"optS1", "optS2">>]), None>>}

\* SpecStore: the fresh store T, with other values in its fields
FreshBatchArgs == BatchArgs(MaxStoreBatch, 0)

FreshKwargs == KwargSeqs(StoreKeys, {2}, MaxStoreKwargs)

FreshShapes == OptArgs("optT1", "optT2") \X SchedArgs("schT1")

ObjectIds == {"netS", "optS1", "optS2", "schS1", "netT", "optT1", "optT2", "schT1"}

\* the objects a store refers to
ObjectsOf(self) ==
    {self[Name("network")]}
    \cup (IF self[Name("optimizers")] = None THEN {}
          ELSE {self[Name("optimizers")][1][i] :
                    i \in 1..Len(self[Name("optimizers")][1])})
    \cup (IF self[Name("schedulers")] = None THEN {}
          ELSE {self[Name("schedulers")][1][i] :
                    i \in 1..Len(self[Name("schedulers")][1])})

\* what one training step adds to an object's state (opaque numeric update)
StepOf(o) ==
    CASE o \in {"netS", "netT"} -> 1
      [] o \in {"optS1", "optT1"} -> 2
      [] o \in {"optS2", "optT2"} -> 3
      [] OTHER -> 4

SameShape(a, b) == (a = None) = (b = None) /\ (a # None => Len(a[1]) = Len(b[1]))

(***************************************************************************)
(* Initial state: nothing constructed, no hook registered.                 *)
(***************************************************************************)
NoHooks ==
    [_epoch_start |-> <<>>, _epoch_end |-> <<>>,
     _batch_start |-> <<>>, _batch_end |-> <<>>]

Init ==
    /\ phase = "new"
    /\ args = <<>>
    /\ params = <<>>
    /\ fresh = <<>>
    /\ heap = [o \in ObjectIds |-> 0]
    /\ disk = None
    /\ loaded = FALSE
    /\ pc = "new"
    /\ loader = 0
    /\ idx = 0
    /\ sigint = FALSE
    /\ signals = 0
    /\ notices = 0
    /\ quitRet = FALSE
    /\ hooks = NoHooks
    /\ regs = <<>>
    /\ log = <<>>
    /\ own = <<>>
    /\ kind = ""
    /\ regVia = <<>>
    /\ handler = "none"
    /\ other = None
    /\ writes = <<>>
    /\ quitSaw = FALSE

(***************************************************************************)
(* Parameter Store operations.                                             *)
(***************************************************************************)
\* S = HyperParameters(netS, optimizers, schedulers, batch_size, mini_batch_size, **kwargs)
Construct(batchArgs, kwargSet, shapes) ==
    /\ phase = "new"
    /\ \E a \in batchArgs, kw \in kwargSet, sh \in shapes :
          LET r == HyperParameters("netS", sh[1], sh[2], a[1], a[2], kw)
          IN  /\ args' = [optimizers |-> sh[1], schedulers |-> sh[2],
                           batch_size |-> a[1], mini_batch_size |-> a[2], kwargs |-> kw]
              /\ phase' = IF r.raised THEN "raised" ELSE "built"
              /\ params' = r.self
    /\ UNCHANGED <<fresh, heap, disk, loaded>>
    /\ UNCHANGED engineVars

\* a training session on S before the save: an epoch begins (self.epoch += 1
\* lands on the store) ...
AdvanceEpoch ==
    /\ phase = "built"
    /\ disk = None
    /\ params[Name("epoch")] < MaxCount
    /\ params' = SetAttr(params, Name("epoch"), params[Name("epoch")] + 1)
    /\ UNCHANGED <<phase, args, fresh, heap, disk, loaded>>
    /\ UNCHANGED engineVars

\* ... or a batch is trained: self.batch += 1, and train_batch changes the
\* state of the network, optimizers and schedulers of S
AdvanceBatch ==
    /\ phase = "built"
    /\ disk = None
    /\ params[Name("batch")] < MaxCount
    /\ params' = SetAttr(params, Name("batch"), params[Name("batch")] + 1)
    /\ heap' = [o \in ObjectIds |->
                   IF o \in ObjectsOf(params) THEN heap[o] + StepOf(o) ELSE heap[o]]
    /\ UNCHANGED <<phase, args, fresh, disk, loaded>>
    /\ UNCHANGED engineVars

\* S.save(path)
Save ==
    /\ phase = "built"
    /\ disk = None
    /\ disk' = Some(save(params, heap))
    /\ UNCHANGED <<phase, args, params, fresh, heap, loaded>>
    /\ UNCHANGED engineVars

\* T = HyperParameters(netT, ...), a fresh store with the shapes of S
ConstructFresh(batchArgs, kwargSet, shapes) ==
    /\ disk # None
    /\ fresh = <<>>
    /\ \E a \in batchArgs, kw \in kwargSet, sh \in shapes :
          LET r == HyperParameters("netT", sh[1], sh[2], a[1], a[2], kw)
          IN  /\ ~r.raised
              /\ SameShape(r.self[Name("optimizers")], params[Name("optimizers")])
              /\ SameShape(r.self[Name("schedulers")], params[Name("schedulers")])
              /\ fresh' = r.self
    /\ UNCHANGED <<phase, args, params, heap, disk, loaded>>
    /\ UNCHANGED engineVars

\* T.load(path)
Load ==
    /\ fresh # <<>>
    /\ ~loaded
    /\ LET r == load(fresh, heap, disk[1])
       IN  /\ fresh' = r.self
           /\ heap' = r.heap
           /\ loaded' = ~r.raised
    /\ UNCHANGED <<phase, args, params, disk>>
    /\ UNCHANGED engineVars

(***************************************************************************)
(* SpecCtor: construction of the store over a wide range of arguments.     *)
(* SpecStore: construct, train, save, construct a fresh store, load.       *)
(***************************************************************************)
NextCtor == Construct(CtorBatchArgs, CtorKwargs, CtorShapes)

SpecCtor == Init /\ [][NextCtor]_vars

NextStore ==
    \/ Construct(StoreBatchArgs, StoreKwargs, StoreShapes)
    \/ AdvanceEpoch
    \/ AdvanceBatch
    \/ Save
    \/ ConstructFresh(FreshBatchArgs, FreshKwargs, FreshShapes)
    \/ Load

SpecStore == Init /\ [][NextStore]_vars

(***************************************************************************)
(* Hook registry: Engine._epoch_start, _epoch_end, _batch_start,           *)
(* _batch_end.  A table is a dict interval -> list of callbacks, kept here *)
(* as the sequence of its entries [k, fns] in insertion order.             *)
(***************************************************************************)
Tables == {"_epoch_start", "_epoch_end", "_batch_start", "_batch_end"}

\* "f" is a plain function, "m" a bound method (it has __self__)
Callbacks == {"f", "m"}

HasSelf(fn) == fn = "m"

HasKey(table, interval) == \E i \in 1..Len(table) : table[i].k = interval

\* mutant: the decorator overwrites the list of an interval already present
registerReplacing(table, interval, fn) ==
    IF HasKey(table, interval)
    THEN [i \in 1..Len(table) |->
             IF table[i].k = interval THEN [k |-> interval, fns |-> <<fn>>]
             ELSE table[i]]
    ELSE Append(table, [k |-> interval, fns |-> <<fn>>])

\* mutant: the callback is put at the front of its interval's list
registerPrepending(table, interval, fn) ==
    IF HasKey(table, interval)
    THEN [i \in 1..Len(table) |->
             IF table[i].k = interval THEN [table[i] EXCEPT !.fns = <<fn>> \o @]
             ELSE table[i]]
    ELSE Append(table, [k |-> interval, fns |-> <<fn>>])

\* the decorators epoch_start, epoch_end, batch_start, batch_end (one body, four tables)
register(table, interval, fn) ==
    IF HasKey(table, interval)
    THEN [i \in 1..Len(table) |->
             IF table[i].k = interval THEN [table[i] EXCEPT !.fns = Append(@, fn)]
             ELSE table[i]]
    ELSE Append(table, [k |-> interval, fns |-> <<fn>>])

\* mutant: the divisibility test with its operands swapped
DueSwapped(value, k) == k % value = 0

\* line 146: value % k == 0
Due(value, k) == value % k = 0

\* lines 147-151: a bound method is called as fn(), a function as fn(self)
CallsOf(entry) ==
    [j \in 1..Len(entry.fns) |->
        <<entry.k, entry.fns[j], IF HasSelf(entry.fns[j]) THEN "" ELSE "self">>]

RECURSIVE _run_hooks(_, _)
\* the calls <<k, fn, argument>> made by self._run_hooks(value, hooks), in order
_run_hooks(value, table) ==
    IF table = <<>> THEN <<>>
    ELSE (IF Due(value, Head(table).k) THEN CallsOf(Head(table)) ELSE <<>>)
         \o _run_hooks(value, Tail(table))

(***************************************************************************)
(* Attribute bridge: Engine.__getattr__ and Engine.__setattr__.  `own` is  *)
(* vars(engine); params, dataloader, sigint and the logger are in it under *)
(* the marker "ref", their values being the variables params, loader and   *)
(* sigint.                                                                 *)
(***************************************************************************)
InitDoneAttr == Key(1, "init_done")

\* names dir(engine) finds on the class Engine
EngineClassAttrs ==
    {InitDoneAttr, Key(1, "epoch_start"), Key(1, "epoch_end"),
     Key(1, "batch_start"), Key(1, "batch_end"), Key(1, "run_hooks"),
     Name("epoch_start"), Name("epoch_end"), Name("batch_start"), Name("batch_end"),
     Name("start"), Name("process_batch"), Name("train_batch"), Name("quit"),
     Name("log")}

\* the attributes __init__ sets on lines 44-55, in order
EngineFields ==
    <<Name("params"), Name("dataloader"), Name("sigint"), Key(1, "Engine__log")>>

Dir(o) == DOMAIN o \cup EngineClassAttrs

\* self._init_done: the instance attribute, or the class attribute False
InitDone(o) == IF InitDoneAttr \in DOMAIN o THEN o[InitDoneAttr] ELSE FALSE

\* batch_subdivisions is a property without a setter
ReadOnly == {Name("batch_subdivisions")}

\* setattr(self.params, name, value): [raised, self]
StoreSetAttr(self, name, value) ==
    IF name \in ReadOnly
    THEN [raised |-> TRUE, self |-> self]
    ELSE [raised |-> FALSE, self |-> SetAttr(self, name, value)]

\* getattr(self.params, name) for a field or the computed property
StoreGetAttr(self, name) ==
    IF name \in DOMAIN self THEN self[name] ELSE batch_subdivisions(self)

\* mutant: every write creates or sets a field of the engine
EngineSetAttrLocal(o, store, name, value) ==
    [raised |-> FALSE, own |-> SetAttr(o, name, value), store |-> store]

\* Engine.__setattr__: [raised, own, store]
EngineSetAttr(o, store, name, value) ==
    IF InitDone(o) /\ name \notin Dir(o) /\ HasAttr(store, name)
    THEN [raised |-> StoreSetAttr(store, name, value).raised,
          own |-> o,
          store |-> StoreSetAttr(store, name, value).self]
    ELSE [raised |-> FALSE, own |-> SetAttr(o, name, value), store |-> store]

\* reading engine.name: the engine's own attribute, else Engine.__getattr__;
\* None stands for the AttributeError
EngineGetAttr(o, store, name) ==
    IF name \in DOMAIN o THEN Some(o[name])
    ELSE IF HasAttr(store, name) THEN Some(StoreGetAttr(store, name))
    ELSE None

\* hasattr(self, key) as the kwargs loop of Engine.__init__ sees it
EngineHasAttr(o, store, key) == key \in Dir(o) \/ HasAttr(store, key)

RECURSIVE EngineWrites(_, _)
\* a run of self.<name> = value statements: ws is a sequence of <<name, value>>,
\* st the pair [own, store] they act on
EngineWrites(st, ws) ==
    IF ws = <<>> THEN st
    ELSE LET w == EngineSetAttr(st.own, st.store, Head(ws)[1], Head(ws)[2])
         IN  EngineWrites([own |-> w.own, store |-> w.store], Tail(ws))

RECURSIVE EngineKwargs(_, _)
\* lines 58-62
EngineKwargs(st, kwargs) ==
    IF kwargs = <<>> THEN st
    ELSE EngineKwargs(IF ~EngineHasAttr(st.own, st.store, Head(kwargs)[1])
                      THEN EngineWrites(st, <<Head(kwargs)>>)
                      ELSE st,
                      Tail(kwargs))

\* Engine.__init__(self, params, dataloader, **kwargs): [own, store]
EngineInit(store, kwargs) ==
    LET st0 == [own |-> <<>>, store |-> store]
        st1 == EngineWrites(st0, [i \in 1..Len(EngineFields) |-> <<EngineFields[i], "ref">>])
        st2 == EngineKwargs(st1, kwargs)
    IN  EngineWrites(st2, <<<<InitDoneAttr, TRUE>>>>)

(***************************************************************************)
(* Engine.  Attribute reads and writes of epoch and batch go to the store  *)
(* (Engine.__getattr__ / __setattr__).                                     *)
(***************************************************************************)
Ev(e, t, val, c) == [ev |-> e, tab |-> t, v |-> val, calls |-> c]

RunHooksEv(value, tab) == Ev("run_hooks", tab, value, _run_hooks(value, hooks[tab]))

Epoch == EngineGetAttr(own, params, Name("epoch"))[1]

Batch == EngineGetAttr(own, params, Name("batch"))[1]

\* mutant: only quit() is consulted
StopIgnoringSigint(q, s) == q

\* mutant: only the interrupt flag is consulted
StopIgnoringQuit(q, s) == s

\* lines 97 and 109: self.quit() or self.sigint
Stop(q, s) == q \/ s

\* mutant: the break taken one accumulation batch earlier
BreakEarlyOffByOne(len, i, subdivisions) == (len - i) - 1 <= subdivisions

\* line 102: (len(loader) - idx) <= self.batch_subdivisions
BreakEarly(len, i, subdivisions) == (len - i) <= subdivisions

\* line 86: (idx + 1) % self.batch_subdivisions != 0
MidAccumulation(i, subdivisions) == (i + 1) % subdivisions # 0

\* the Engine subclasses of the session; neither defines a hook table of its own
Subclasses == {"A", "B"}

\* engine = cls(params, dataloader, **kwargs): sigint = False, the SIGINT
\* handler of the process becomes engine.__sigint_handler
NewEngine(loaders, classes, kwargSet) ==
    /\ pc = "new"
    /\ phase = "built"
    /\ \E n \in loaders : loader' = n
    /\ \E c \in classes : kind' = c
    /\ \E kw \in kwargSet :
          /\ own' = EngineInit(params, kw).own
          /\ params' = EngineInit(params, kw).store
    /\ sigint' = FALSE
    /\ handler' = "engine"
    /\ pc' = "idle"
    /\ UNCHANGED <<idx, signals, notices, quitRet, hooks, regs, log, regVia, other, writes,
                   quitSaw>>
    /\ UNCHANGED <<phase, args, fresh, heap, disk, loaded>>

\* mutant: the second engine's constructor leaves the installed handler
NewOtherKeepsHandler ==
    /\ pc \in {"new", "idle"}
    /\ other = None
    /\ other' = Some(FALSE)
    /\ UNCHANGED <<pc, loader, idx, sigint, signals, notices, quitRet, hooks, regs, log>>
    /\ UNCHANGED <<own, kind, regVia, handler, writes, quitSaw>>
    /\ UNCHANGED storeVars

\* a second engine is constructed in the same process: its handler replaces
\* the installed one
NewOther ==
    /\ pc \in {"new", "idle"}
    /\ other = None
    /\ other' = Some(FALSE)
    /\ handler' = "other"
    /\ UNCHANGED <<pc, loader, idx, sigint, signals, notices, quitRet, hooks, regs, log>>
    /\ UNCHANGED <<own, kind, regVia, writes, quitSaw>>
    /\ UNCHANGED storeVars

\* engine.name = value, from outside the loop
Write(names, values, maxWrites) ==
    /\ pc = "idle"
    /\ Len(writes) < maxWrites
    /\ \E name \in names, value \in values :
          LET w == EngineSetAttr(own, params, name, value)
          IN  /\ own' = w.own
              /\ params' = w.store
              /\ writes' = Append(writes, [name |-> name, value |-> value,
                                           raised |-> w.raised])
    /\ UNCHANGED <<pc, loader, idx, sigint, signals, notices, quitRet, hooks, regs, log>>
    /\ UNCHANGED <<kind, regVia, handler, other, quitSaw>>
    /\ UNCHANGED <<phase, args, fresh, heap, disk, loaded>>

\* @cls.epoch_start(interval) etc. for a subclass cls: cls._epoch_start is
\* looked up on cls and found on Engine (lines 38-41), and that dict is updated
\* in place; class-level, before the loop runs
Register(intervals, callbacks, maxRegs, classes) ==
    /\ pc \in {"new", "idle"}
    /\ log = <<>>
    /\ Len(regs) < maxRegs
    /\ \E tab \in Tables, k \in intervals, fn \in callbacks, cls \in classes :
          /\ hooks' = [hooks EXCEPT ![tab] = register(@, k, fn)]
          /\ regs' = Append(regs, <<tab, k, fn>>)
          /\ regVia' = Append(regVia, cls)
    /\ UNCHANGED <<pc, loader, idx, sigint, signals, notices, quitRet, log>>
    /\ UNCHANGED <<own, kind, handler, other, writes, quitSaw>>
    /\ UNCHANGED storeVars

\* engine._run_hooks(value, table) called on its own
Dispatch(values) ==
    /\ pc = "idle"
    /\ log = <<>>
    /\ \E value \in values, tab \in Tables : log' = Append(log, RunHooksEv(value, tab))
    /\ UNCHANGED <<pc, loader, idx, sigint, signals, notices, quitRet, hooks, regs>>
    /\ UNCHANGED storeVars
    /\ UNCHANGED hostVars

\* mutant: the handler without its `if not self.sigint` guard
SigintHandlerUnguarded ==
    /\ pc # "new"
    /\ handler = "engine"
    /\ signals < MaxSignals
    /\ signals' = signals + 1
    /\ notices' = notices + 1
    /\ sigint' = TRUE
    /\ UNCHANGED <<pc, loader, idx, quitRet, hooks, regs, log>>
    /\ UNCHANGED storeVars
    /\ UNCHANGED hostVars

\* __sigint_handler, run when a SIGINT is delivered
SigintHandler ==
    /\ pc # "new"
    /\ handler = "engine"
    /\ signals < MaxSignals
    /\ signals' = signals + 1
    /\ IF ~sigint
       THEN notices' = notices + 1 /\ sigint' = TRUE
       ELSE UNCHANGED <<notices, sigint>>
    /\ UNCHANGED <<pc, loader, idx, quitRet, hooks, regs, log>>
    /\ UNCHANGED hostVars
    /\ UNCHANGED storeVars

\* the same handler bound to the second engine
OtherSigintHandler ==
    /\ handler = "other"
    /\ signals < MaxSignals
    /\ signals' = signals + 1
    /\ IF ~other[1]
       THEN notices' = notices + 1 /\ other' = Some(TRUE)
       ELSE UNCHANGED <<notices, other>>
    /\ UNCHANGED <<pc, loader, idx, sigint, quitRet, hooks, regs, log>>
    /\ UNCHANGED <<own, kind, regVia, handler, writes, quitSaw>>
    /\ UNCHANGED storeVars

\* engine(): lines 68-71
Call ==
    /\ pc = "idle"
    /\ log = <<>>
    /\ log' = Append(log, Ev("start", "", 0, <<>>))
    /\ pc' = "epoch_start"
    /\ UNCHANGED <<loader, idx, sigint, signals, notices, quitRet, hooks, regs>>
    /\ UNCHANGED storeVars
    /\ UNCHANGED hostVars

\* lines 75-79: the epoch begins, the batch loop gets its iterator
EpochStart ==
    /\ pc = "epoch_start"
    /\ LET w == EngineSetAttr(own, params, Name("epoch"), Epoch + 1)
       IN  /\ own' = w.own
           /\ params' = w.store
           /\ log' = Append(log, RunHooksEv(EngineGetAttr(w.own, w.store, Name("epoch"))[1],
                                            "_epoch_start"))
    /\ idx' = 0
    /\ pc' = "for"
    /\ UNCHANGED <<phase, args, fresh, heap, disk, loaded>>
    /\ UNCHANGED <<loader, sigint, signals, notices, quitRet, hooks, regs>>
    /\ UNCHANGED <<kind, regVia, handler, other, writes, quitSaw>>

\* line 79: the next element of enumerate(loader), or the end of the loop
For ==
    /\ pc = "for"
    /\ pc' = IF idx < loader THEN "batch_start" ELSE "epoch_end"
    /\ UNCHANGED <<loader, idx, sigint, signals, notices, quitRet, hooks, regs, log>>
    /\ UNCHANGED storeVars
    /\ UNCHANGED hostVars

\* lines 81-82
BatchStart ==
    /\ pc = "batch_start"
    /\ LET w == EngineSetAttr(own, params, Name("batch"), Batch + 1)
       IN  /\ own' = w.own
           /\ params' = w.store
           /\ log' = Append(log, RunHooksEv(EngineGetAttr(w.own, w.store, Name("batch"))[1],
                                            "_batch_start"))
    /\ pc' = "process_batch"
    /\ UNCHANGED <<phase, args, fresh, heap, disk, loaded>>
    /\ UNCHANGED <<loader, idx, sigint, signals, notices, quitRet, hooks, regs>>
    /\ UNCHANGED <<kind, regVia, handler, other, writes, quitSaw>>

\* mutant: the counter is not taken back for a mini-batch that completes no batch
ProcessBatchKeepsCount ==
    /\ pc = "process_batch"
    /\ log' = Append(log, Ev("process_batch", "", idx, <<>>))
    /\ IF MidAccumulation(idx, EngineGetAttr(own, params, Name("batch_subdivisions"))[1])
       THEN /\ UNCHANGED <<own, params>>
            /\ idx' = idx + 1
            /\ pc' = "for"
       ELSE /\ pc' = "train_batch"
            /\ UNCHANGED <<own, params, idx>>
    /\ UNCHANGED <<phase, args, fresh, heap, disk, loaded>>
    /\ UNCHANGED <<loader, sigint, signals, notices, quitRet, hooks, regs>>
    /\ UNCHANGED <<kind, regVia, handler, other, writes, quitSaw>>

\* lines 85-88
ProcessBatch ==
    /\ pc = "process_batch"
    /\ log' = Append(log, Ev("process_batch", "", idx, <<>>))
    /\ IF MidAccumulation(idx, EngineGetAttr(own, params, Name("batch_subdivisions"))[1])
       THEN /\ own' = EngineSetAttr(own, params, Name("batch"), Batch - 1).own
            /\ params' = EngineSetAttr(own, params, Name("batch"), Batch - 1).store
            /\ idx' = idx + 1
            /\ pc' = "for"
       ELSE /\ pc' = "train_batch"
            /\ UNCHANGED <<own, params, idx>>
    /\ UNCHANGED <<phase, args, fresh, heap, disk, loaded>>
    /\ UNCHANGED <<loader, sigint, signals, notices, quitRet, hooks, regs>>
    /\ UNCHANGED <<kind, regVia, handler, other, writes, quitSaw>>

\* mutant: the batch-end dispatch is left out after the optimizer step
TrainBatchWithoutBatchEnd ==
    /\ pc = "train_batch"
    /\ log' = Append(log, Ev("train_batch", "", 0, <<>>))
    /\ pc' = "quit_batch"
    /\ UNCHANGED <<loader, idx, sigint, signals, notices, quitRet, hooks, regs>>
    /\ UNCHANGED storeVars
    /\ UNCHANGED hostVars

\* line 91
TrainBatch ==
    /\ pc = "train_batch"
    /\ log' = Append(log, Ev("train_batch", "", 0, <<>>))
    /\ pc' = "batch_end"
    /\ UNCHANGED <<loader, idx, sigint, signals, notices, quitRet, hooks, regs>>
    /\ UNCHANGED storeVars
    /\ UNCHANGED hostVars

\* line 94
BatchEnd ==
    /\ pc = "batch_end"
    /\ log' = Append(log, RunHooksEv(Batch, "_batch_end"))
    /\ pc' = "quit_batch"
    /\ UNCHANGED <<loader, idx, sigint, signals, notices, quitRet, hooks, regs>>
    /\ UNCHANGED storeVars
    /\ UNCHANGED hostVars

\* line 97, left operand: self.quit() returns
QuitBatch ==
    /\ pc = "quit_batch"
    /\ \E q \in BOOLEAN :
          /\ quitRet' = q
          /\ log' = Append(log, Ev("quit", "batch", IF q THEN 1 ELSE 0, <<>>))
    /\ pc' = "check_batch"
    /\ UNCHANGED <<loader, idx, sigint, signals, notices, hooks, regs>>
    /\ UNCHANGED storeVars
    /\ quitSaw' = sigint
    /\ UNCHANGED <<own, kind, regVia, handler, other, writes>>

\* lines 97-99: ... or self.sigint, and the return
CheckBatch ==
    /\ pc = "check_batch"
    /\ pc' = IF Stop(quitRet, sigint) THEN "done" ELSE "break_test"
    /\ UNCHANGED <<loader, idx, sigint, signals, notices, quitRet, hooks, regs, log>>
    /\ UNCHANGED storeVars
    /\ UNCHANGED hostVars

\* lines 102-103, and the step to the next element
BreakTest ==
    /\ pc = "break_test"
    /\ IF BreakEarly(loader, idx, EngineGetAttr(own, params, Name("batch_subdivisions"))[1])
       THEN pc' = "epoch_end" /\ idx' = idx
       ELSE pc' = "for" /\ idx' = idx + 1
    /\ UNCHANGED <<loader, sigint, signals, notices, quitRet, hooks, regs, log>>
    /\ UNCHANGED storeVars
    /\ UNCHANGED hostVars

\* line 106
EpochEnd ==
    /\ pc = "epoch_end"
    /\ log' = Append(log, RunHooksEv(Epoch, "_epoch_end"))
    /\ pc' = "quit_epoch"
    /\ UNCHANGED <<loader, idx, sigint, signals, notices, quitRet, hooks, regs>>
    /\ UNCHANGED storeVars
    /\ UNCHANGED hostVars

\* line 109, left operand: self.quit() returns; the session's quit() ends it
\* at epoch MaxEpoch or after MaxWork mini-batches at the latest
QuitEpoch ==
    /\ pc = "quit_epoch"
    /\ \E q \in BOOLEAN :
          /\ (Epoch >= MaxEpoch \/ Epoch * loader >= MaxWork) => q
          /\ quitRet' = q
          /\ log' = Append(log, Ev("quit", "epoch", IF q THEN 1 ELSE 0, <<>>))
    /\ pc' = "check_epoch"
    /\ UNCHANGED <<loader, idx, sigint, signals, notices, hooks, regs>>
    /\ UNCHANGED storeVars
    /\ quitSaw' = sigint
    /\ UNCHANGED <<own, kind, regVia, handler, other, writes>>

\* lines 109-111
CheckEpoch ==
    /\ pc = "check_epoch"
    /\ pc' = IF Stop(quitRet, sigint) THEN "done" ELSE "epoch_start"
    /\ UNCHANGED <<loader, idx, sigint, signals, notices, quitRet, hooks, regs, log>>
    /\ UNCHANGED storeVars
    /\ UNCHANGED hostVars

(***************************************************************************)
(* Spec: a store, an engine over it, at most one registered hook, and the  *)
(* training loop, with SIGINT delivered at any moment.                     *)
(* SpecDispatch: hooks registered, then one _run_hooks call.               *)
(***************************************************************************)
\* batch_size / mini_batch_size = 1..MaxSubdivisions, and batch_size 8 with
\* mini_batch_size 4
LoopBatchArgs == {<<bs, Some(1)>> : bs \in 1..MaxSubdivisions} \cup {<<8, Some(4)>>}

LoopShapes == {<<Some([iterable |-> FALSE, obj |-> "optS1"]), None>>}

Loop ==
    \/ Call
    \/ EpochStart
    \/ For
    \/ BatchStart
    \/ ProcessBatch
    \/ TrainBatch
    \/ BatchEnd
    \/ QuitBatch
    \/ CheckBatch
    \/ BreakTest
    \/ EpochEnd
    \/ QuitEpoch
    \/ CheckEpoch

Next ==
    \/ Construct(LoopBatchArgs, {<<>>}, LoopShapes)
    \/ NewEngine(0..MaxLoader, {"A"}, {<<>>})
    \/ Register(1..MaxInterval, {"f"}, 1, {"A"})
    \/ SigintHandler
    \/ Loop

Spec == Init /\ [][Next]_vars

NextDispatch ==
    \/ Construct({<<1, None>>}, {<<>>}, LoopShapes)
    \/ NewEngine({0}, {"A"}, {<<>>})
    \/ Register(1..MaxDispatchInterval, Callbacks, MaxRegs, {"A"})
    \/ Dispatch(0..MaxValue)

SpecDispatch == Init /\ [][NextDispatch]_vars

\* SpecRegistry: the same with two Engine subclasses, hooks registered through
\* either, the engine an instance of either
NextRegistry ==
    \/ Construct({<<1, None>>}, {<<>>}, LoopShapes)
    \/ NewEngine({0}, Subclasses, {<<>>})
    \/ Register(1..MaxDispatchInterval, Callbacks, MaxRegs, Subclasses)
    \/ Dispatch(0..MaxValue)

SpecRegistry == Init /\ [][NextRegistry]_vars

(***************************************************************************)
(* SpecBridge: a store with an extra field, an engine over it with an      *)
(* extra field of its own, attribute writes on the engine, then the loop.  *)
(***************************************************************************)
BridgeBatchArgs == {<<1, None>>, <<2, Some(1)>>}

\* at most one extra field of the store: one that no engine has, or one whose
\* name the engine has too (its sigint flag, its start method)
BridgeStoreKwargs == KwargSeqs({Name("x"), Name("sigint"), Name("start")}, {1}, 1)

\* at most one extra field of the engine: a new name, or one the store has
BridgeEngineKwargs == KwargSeqs({Name("w"), Name("epoch")}, {5}, 1)

\* the names written: counters, a store field, a method name and the computed
\* property of the store, a method name of the engine, the engine's extra
\* field, a name found nowhere
BridgeNames ==
    {Name("epoch"), Name("batch"), Name("x"), Name("save"),
     Name("batch_subdivisions"), Name("start"), Name("w"), Name("z")}

NextBridge ==
    \/ Construct(BridgeBatchArgs, BridgeStoreKwargs, LoopShapes)
    \/ NewEngine({0, 1}, {"A"}, BridgeEngineKwargs)
    \/ Write(BridgeNames, {7}, MaxWrites)
    \/ Loop

SpecBridge == Init /\ [][NextBridge]_vars

(***************************************************************************)
(* SpecSignal: two engines constructed in one process, in either order,    *)
(* SIGINT delivered at any moment, the loop of the first one running.      *)
(***************************************************************************)
NextSignal ==
    \/ Construct({<<2, Some(1)>>}, {<<>>}, LoopShapes)
    \/ NewEngine(0..MaxSignalLoader, {"A"}, {<<>>})
    \/ NewOther
    \/ SigintHandler
    \/ OtherSigintHandler
    \/ Loop

SpecSignal == Init /\ [][NextSignal]_vars

(***************************************************************************)
(* Claims about the training loop.                                         *)
(***************************************************************************)
Last(s) == s[Len(s)]

EventsOf(e) == SelectSeq(log, LAMBDA x : x.ev = e)

TrainCount == Len(EventsOf("train_batch"))

\* the positions passed to process_batch, in order
Processed == [i \in 1..Len(EventsOf("process_batch")) |-> EventsOf("process_batch")[i].v]

\* the positions whose process_batch was directly followed by train_batch
Completions ==
    LET at == SelectSeq([i \in 1..Len(log) |-> i],
                        LAMBDA i : log[i].ev = "train_batch")
    IN  [j \in 1..Len(at) |-> log[at[j] - 1].v]

\* process_batch calls made since the last train_batch (or since the start)
Pending ==
    LET trains == {i \in 1..Len(log) : log[i].ev = "train_batch"}
        from == IF trains = {} THEN 0
                ELSE CHOOSE i \in trains : \A j \in trains : j <= i
    IN  Cardinality({i \in (from + 1)..Len(log) : log[i].ev = "process_batch"})

\* the first epoch over 10 mini-batches with batch_size 8 and mini_batch_size
\* 4 has left its batch loop without quit() or the interrupt ending the run
C1_Scenario ==
    /\ phase = "built"
    /\ args.batch_size = 8
    /\ args.mini_batch_size = Some(4)
    /\ loader = 10
    /\ pc = "epoch_end"
    /\ Epoch = 1

\* C1 as stated: exactly 4 completions (0-1, 2-3, 4-5, 6-7), train_batch
\* invoked 4 times, mini-batches 8 and 9 never passed to process_batch.
C1_FourCompletions ==
    C1_Scenario =>
        /\ TrainCount = 4
        /\ Completions = <<1, 3, 5, 7>>
        /\ Processed = <<0, 1, 2, 3, 4, 5, 6, 7>>

\* C1 amended: with batch_size 8, mini_batch_size 4 and 10 mini-batches the
\* epoch has exactly 5 completions (0-1, 2-3, 4-5, 6-7, 8-9), train_batch is
\* invoked 5 times, every one of the 10 mini-batches is passed to
\* process_batch, and the early break is taken after the last one.
C1_FiveCompletions ==
    C1_Scenario =>
        /\ batch_subdivisions(params) = 2
        /\ TrainCount = 5
        /\ Completions = <<1, 3, 5, 7, 9>>
        /\ Processed = <<0, 1, 2, 3, 4, 5, 6, 7, 8, 9>>
        /\ idx = 9

C1_Witness == C1_Scenario /\ TrainCount = 5 /\ Batch = 5

\* quit() has just returned True at the checkpoint after an accumulation batch
C2_QuitTrueAfterBatch ==
    /\ log # <<>>
    /\ Last(log) = Ev("quit", "batch", 1, <<>>)

\* C2: once quit() has returned True at the batch checkpoint the loop returns:
\* no call is made after that quit() (no process_batch, train_batch, dispatch),
\* the counters keep their values, and the only step of the loop is the return.
C2_ReturnsAtBatchCheckpoint ==
    [][C2_QuitTrueAfterBatch =>
          /\ log' = log
          /\ params' = params
          /\ pc \in {"check_batch", "done"}
          /\ pc' \in {pc, "done"}
          /\ (pc' # pc => pc = "check_batch")]_vars

C2_Witness ==
    /\ pc = "done"
    /\ C2_QuitTrueAfterBatch
    /\ TrainCount = 2
    /\ Epoch = 1
    /\ ~sigint
    /\ idx + batch_subdivisions(params) < loader

\* number of registrations of fn under interval k made in table tab
RegCount(tab, k, fn) == Cardinality({i \in 1..Len(regs) : regs[i] = <<tab, k, fn>>})

\* number of calls of fn as registered under k among the calls of one dispatch
CallCount(calls, k, fn) ==
    Cardinality({j \in 1..Len(calls) : calls[j][1] = k /\ calls[j][2] = fn})

\* the values v of the epoch-end dispatches that called fn registered under k
EpochEndCalls(k, fn) ==
    LET ds == SelectSeq(log, LAMBDA x : x.ev = "run_hooks" /\ x.tab = "_epoch_end"
                                        /\ \E j \in 1..Len(x.calls) :
                                               x.calls[j][1] = k /\ x.calls[j][2] = fn)
    IN  [i \in 1..Len(ds) |-> ds[i].v]

\* the run has returned from the epoch checkpoint
EndedAtEpochCheckpoint == pc = "done" /\ Last(log).ev = "quit" /\ Last(log).tab = "epoch"

\* C3: in a run from epoch 0 that returns at the checkpoint of epoch E, a hook
\* registered in the epoch-end table at interval k is invoked exactly once at
\* each of the epoch values k, 2k, ... <= E, in that order, and at no other.
C3_EpochEndHookAtMultiples ==
    EndedAtEpochCheckpoint =>
        \A i \in 1..Len(regs), fn \in Callbacks :
            LET k == regs[i][2]
            IN  RegCount("_epoch_end", k, fn) = 1 =>
                    /\ EpochEndCalls(k, fn) = [j \in 1..(Epoch \div k) |-> j * k]
                    /\ \A e \in 1..Len(log) :
                           (log[e].ev = "run_hooks" /\ log[e].tab = "_epoch_end")
                               => CallCount(log[e].calls, k, fn) <= 1

C3_Witness ==
    /\ EndedAtEpochCheckpoint
    /\ Epoch = 5
    /\ regs = <<<<"_epoch_end", 2, "f">>>>
    /\ EpochEndCalls(2, "f") = <<2, 4>>

\* C7: the interrupt handler is idempotent: the first signal sets the flag and
\* logs the notice, the flag is never set back to False by the handler, and a
\* later signal changes nothing (the notice is logged exactly once).
C7_HandlerIdempotent ==
    /\ [][signals' # signals =>
             /\ sigint'
             /\ notices' = IF sigint THEN notices ELSE notices + 1
             /\ UNCHANGED storeVars
             /\ UNCHANGED <<pc, loader, idx, quitRet, hooks, regs, log>>]_vars
    /\ [](notices = IF signals > 0 THEN 1 ELSE 0)
    /\ [](sigint <=> signals > 0)

C7_Witness == signals = 2 /\ notices = 1 /\ sigint

\* C8: the interrupt flag is read only at the two checkpoints: the loop
\* returns only from a checkpoint, with the flag set it returns at the
\* checkpoint it reaches, and with the flag set process_batch and train_batch
\* are still called where the loop stands at them.
C8_FlagPolledAtCheckpoints ==
    /\ [][(pc' = "done" /\ pc # "done") => pc \in {"check_batch", "check_epoch"}]_vars
    /\ [][(sigint /\ pc \in {"check_batch", "check_epoch"} /\ pc' # pc)
              => pc' = "done"]_vars
    /\ [][(sigint /\ pc = "process_batch" /\ pc' # pc)
              => log' = Append(log, Ev("process_batch", "", idx, <<>>))]_vars
    /\ [][(sigint /\ pc = "train_batch" /\ pc' # pc)
              => (log' = Append(log, Ev("train_batch", "", 0, <<>>))
                  /\ pc' = "batch_end")]_vars
    /\ [][(sigint /\ pc \notin {"check_batch", "check_epoch", "done"} /\ pc' # pc)
              => pc' # "done"]_vars

C8_Witness ==
    /\ pc = "done"
    /\ sigint
    /\ ~quitRet
    /\ Last(log) = Ev("quit", "batch", 0, <<>>)
    /\ TrainCount = 2
    /\ Len(Processed) = 2 * batch_subdivisions(params)
    /\ batch_subdivisions(params) = 3

\* C14 as stated: quit() is called at every checkpoint that is reached, with
\* the interrupt flag set or not, and the flag is read only after it; the loop
\* returns only from such a quit() call; so whenever the loop returns with
\* the flag set, the quit() call of that checkpoint was made with the flag
\* set (after the interrupt quit() has run once more), and a quit() call made
\* with the flag set is the last one.
C14_QuitBeforeFlagCheck ==
    [][/\ (pc' \in {"check_batch", "check_epoch"} /\ pc' # pc)
              => (pc \in {"quit_batch", "quit_epoch"}
                  /\ log' = Append(log, Last(log'))
                  /\ Last(log').ev = "quit")
       /\ (pc' = "done" /\ pc # "done")
              => (pc \in {"check_batch", "check_epoch"} /\ Last(log).ev = "quit")
       /\ (pc' = "done" /\ pc # "done" /\ sigint) => quitSaw
       /\ (pc \in {"check_batch", "check_epoch"} /\ quitSaw /\ pc' # pc)
              => pc' = "done"]_vars

\* C9 as stated: at every quit() call no process_batch call has been made
\* since the last train_batch call (or since the start of the run).
C9_QuitNeverMidAccumulation ==
    (log # <<>> /\ Last(log).ev = "quit") => Pending = 0

\* the calls of the current epoch: those after its epoch-start dispatch
EpochLog ==
    LET starts == {i \in 1..Len(log) :
                      log[i].ev = "run_hooks" /\ log[i].tab = "_epoch_start"}
        from == IF starts = {} THEN 0
                ELSE CHOOSE i \in starts : \A j \in starts : j <= i
    IN  SubSeq(log, from + 1, Len(log))

\* the positions passed to process_batch in the current epoch, in order
EpochProcessed ==
    LET ps == SelectSeq(EpochLog, LAMBDA x : x.ev = "process_batch")
    IN  [i \in 1..Len(ps) |-> ps[i].v]

EpochTrainCount == Len(SelectSeq(EpochLog, LAMBDA x : x.ev = "train_batch"))

\* C15 as stated: when an epoch's batch loop has ended without quit() or the
\* interrupt ending the run, with N = len(dataloader) and s =
\* batch_subdivisions, process_batch was invoked on exactly the first
\* s * floor(N / s) mini-batches and train_batch floor(N / s) times.
C15_LeftoversDiscarded ==
    pc = "epoch_end" =>
        LET s == batch_subdivisions(params)
        IN  /\ EpochProcessed = [i \in 1..(s * (loader \div s)) |-> i - 1]
            /\ EpochTrainCount = loader \div s

\* the calls of the logical batch that has just been completed: those after
\* the previous quit() call or the epoch-start dispatch, whichever is later
BatchLog ==
    LET marks == {i \in 1..(Len(log) - 1) :
                     \/ log[i].ev = "quit"
                     \/ (log[i].ev = "run_hooks" /\ log[i].tab = "_epoch_start")}
        from == IF marks = {} THEN 0
                ELSE CHOOSE i \in marks : \A j \in marks : j <= i
    IN  SubSeq(log, from + 1, Len(log))

CountIn(s, e, t) == Len(SelectSeq(s, LAMBDA x : x.ev = e /\ x.tab = t))

\* C16 as stated: at the batch checkpoint, the logical batch just completed
\* consists of batch_subdivisions consecutive mini-batches, and for it
\* train_batch, the batch-start dispatch, the batch-end dispatch and the
\* checkpoint's quit() call have each occurred exactly once.
C16_AlignedToLogicalBatches ==
    (log # <<>> /\ Last(log).ev = "quit" /\ Last(log).tab = "batch") =>
        /\ CountIn(BatchLog, "process_batch", "") = batch_subdivisions(params)
        /\ CountIn(BatchLog, "train_batch", "") = 1
        /\ CountIn(BatchLog, "run_hooks", "_batch_start") = 1
        /\ CountIn(BatchLog, "run_hooks", "_batch_end") = 1
        /\ CountIn(BatchLog, "quit", "batch") = 1

IsDispatch(x, t) == x.ev = "run_hooks" /\ x.tab = t

\* a call made inside the batch loop
IsBatchEvent(x) ==
    \/ x.ev \in {"process_batch", "train_batch"}
    \/ IsDispatch(x, "_batch_start")
    \/ IsDispatch(x, "_batch_end")
    \/ (x.ev = "quit" /\ x.tab = "batch")

\* C18: order of the calls of a run, stated of the call made last (every
\* earlier call was the last one in an earlier state).  start() is the first
\* call and is made once, and the epoch-start dispatch follows it; a call of
\* the batch loop comes after the epoch-start dispatch of its epoch and
\* before its epoch-end dispatch (no epoch-end dispatch lies between them,
\* and after an epoch-end dispatch come its quit() and the next epoch-start
\* dispatch); every process_batch directly follows a batch-start dispatch;
\* train_batch is followed by the batch-end dispatch, that by quit(), and the
\* early-break test is reached only from that quit() and the flag check.
C18_EventOrder ==
    log # <<>> =>
        LET n == Len(log)
            x == log[n]
        IN  /\ (x.ev = "start") <=> (n = 1)
            /\ n = 2 => IsDispatch(x, "_epoch_start")
            /\ IsBatchEvent(x) =>
                   /\ CountIn(log, "run_hooks", "_epoch_start") > 0
                   /\ CountIn(EpochLog, "run_hooks", "_epoch_end") = 0
            /\ (n > 1 /\ IsDispatch(log[n - 1], "_epoch_end"))
                   => (x.ev = "quit" /\ x.tab = "epoch")
            /\ (n > 2 /\ IsDispatch(log[n - 2], "_epoch_end"))
                   => IsDispatch(x, "_epoch_start")
            /\ IsDispatch(x, "_epoch_end")
                   => CountIn(EpochLog, "run_hooks", "_epoch_end") = 1
            /\ x.ev = "process_batch" => IsDispatch(log[n - 1], "_batch_start")
            /\ (n > 1 /\ log[n - 1].ev = "train_batch") => IsDispatch(x, "_batch_end")
            /\ IsDispatch(x, "_batch_end") => log[n - 1].ev = "train_batch"
            /\ (n > 1 /\ IsDispatch(log[n - 1], "_batch_end"))
                   => (x.ev = "quit" /\ x.tab = "batch")
            /\ pc = "quit_batch" => IsDispatch(x, "_batch_end")
            /\ pc \in {"check_batch", "break_test"} => (x.ev = "quit" /\ x.tab = "batch")
            /\ pc = "break_test" => ~quitRet

\* a run of two epochs with two accumulation batches of two mini-batches each
C18_Witness ==
    /\ pc = "done"
    /\ Epoch = 2
    /\ TrainCount = 4
    /\ Len(Processed) = 8
    /\ batch_subdivisions(params) = 2
    /\ CountIn(log, "run_hooks", "_epoch_end") = 2
    /\ CountIn(log, "run_hooks", "_batch_end") = 4
    /\ Last(log) = Ev("quit", "epoch", 1, <<>>)

\* the values the batch-end dispatches were given, in order
BatchEndValues ==
    LET ds == SelectSeq(log, LAMBDA x : IsDispatch(x, "_batch_end"))
    IN  [i \in 1..Len(ds) |-> ds[i].v]

\* C19: in a run from epoch = batch = 0 both counters are never negative; at
\* every quit() call batch is the number of train_batch calls made so far and
\* epoch the number of epoch-start dispatches; the batch-end dispatches are
\* given 1, 2, 3, ... in order, across epochs.
C19_CounterInvariant ==
    phase = "built" =>
        /\ Epoch >= 0
        /\ Batch >= 0
        /\ (log # <<>> /\ Last(log).ev = "quit") =>
               /\ Batch = TrainCount
               /\ Epoch = CountIn(log, "run_hooks", "_epoch_start")
        /\ BatchEndValues = [i \in 1..Len(BatchEndValues) |-> i]
        /\ Len(BatchEndValues) <= TrainCount

\* two epochs of two accumulation batches of two mini-batches each
C19_Witness ==
    /\ pc = "done"
    /\ Last(log) = Ev("quit", "epoch", 0, <<>>)
    /\ sigint
    /\ batch_subdivisions(params) = 2
    /\ Epoch = 2
    /\ Batch = 4
    /\ BatchEndValues = <<1, 2, 3, 4>>
    /\ Len(Processed) = 8

(***************************************************************************)
(* Claims about the hook registry.                                         *)
(***************************************************************************)
\* C4: dispatch(v, table) invokes a callback registered under interval k if
\* and only if v % k = 0, once per registration; callbacks under an interval
\* that does not divide v are not invoked (any table, interval and value).
C4_DispatchIffDivides ==
    [][(Len(log') = Len(log) + 1 /\ Last(log').ev = "run_hooks") =>
          LET e == Last(log')
              keys == {regs[i][2] : i \in 1..Len(regs)}
                      \cup {e.calls[j][1] : j \in 1..Len(e.calls)}
          IN  \A k \in keys, fn \in Callbacks :
                 CallCount(e.calls, k, fn) =
                     IF e.v % k = 0 THEN RegCount(e.tab, k, fn) ELSE 0]_vars

C4_Witness ==
    /\ log # <<>>
    /\ Last(log).ev = "run_hooks"
    /\ Last(log).v = 4
    /\ regs = <<<<Last(log).tab, 2, "f">>, <<Last(log).tab, 2, "f">>>>
    /\ hooks[Last(log).tab] = <<[k |-> 2, fns |-> <<"f", "f">>]>>
    /\ Last(log).calls = <<<<2, "f", "self">>, <<2, "f", "self">>>>

\* the registrations of fn under k in table tab made through subclass cls
RegisteredVia(cls, tab, k, fn) ==
    {i \in 1..Len(regs) : regs[i] = <<tab, k, fn>> /\ regVia[i] = cls}

\* C13 as stated: in a dispatch by an instance of subclass `kind`, a callback
\* registered through that subclass under an interval that divides the value
\* is called, and a callback that was never registered through that subclass
\* (only through the other one) is not called.
C13_RegistryPerSubtype ==
    (log # <<>> /\ Last(log).ev = "run_hooks") =>
        \A i \in 1..Len(regs) :
            LET k == regs[i][2]
                fn == regs[i][3]
            IN  regs[i][1] = Last(log).tab =>
                    /\ (regVia[i] = kind /\ Last(log).v % k = 0)
                           => CallCount(Last(log).calls, k, fn) > 0
                    /\ RegisteredVia(kind, Last(log).tab, k, fn) = {}
                           => CallCount(Last(log).calls, k, fn) = 0

\* the registrations in table tab whose interval divides v
DueRegs(tab, v) == {i \in 1..Len(regs) : regs[i][1] = tab /\ v % regs[i][2] = 0}

\* the registration that first used the interval of registration i in its table
FirstOfKey(i) ==
    CHOOSE j \in 1..Len(regs) :
        /\ regs[j][1] = regs[i][1]
        /\ regs[j][2] = regs[i][2]
        /\ \A h \in 1..(j - 1) : ~(regs[h][1] = regs[i][1] /\ regs[h][2] = regs[i][2])

\* registration i is called before registration j: its interval was inserted
\* earlier, or they share the interval and i was registered first
CalledBefore(i, j) ==
    \/ FirstOfKey(i) < FirstOfKey(j)
    \/ (FirstOfKey(i) = FirstOfKey(j) /\ i < j)

\* the due registrations in the order the claim gives
DispatchOrder(tab, v) ==
    CHOOSE s \in [1..Cardinality(DueRegs(tab, v)) -> DueRegs(tab, v)] :
        \A a, b \in DOMAIN s : a < b => CalledBefore(s[a], s[b])

C17_WitnessSameInterval ==
    /\ log # <<>>
    /\ Last(log).ev = "run_hooks"
    /\ regs = <<<<Last(log).tab, 1, "m">>, <<Last(log).tab, 1, "f">>>>
    /\ Last(log).calls = <<<<1, "m", "">>, <<1, "f", "self">>>>

(***************************************************************************)
(* Claims about the Parameter Store.                                       *)
(***************************************************************************)
Excluded(self, n) == InSeq(n, self[NoSerializeAttr])

\* C5: for positive batch_size and mini_batch_size, construction fails with
\* the configuration error if and only if mini_batch_size <= batch_size and
\* batch_size % mini_batch_size != 0; with mini_batch_size absent or larger
\* than batch_size it succeeds.
C5_FailsIffNotDivisor ==
    phase # "new" =>
        ((phase = "raised") <=>
            (/\ args.mini_batch_size # None
             /\ args.mini_batch_size[1] <= args.batch_size
             /\ args.batch_size % args.mini_batch_size[1] # 0))

C5_Witness ==
    /\ phase = "raised"
    /\ args.batch_size = 3
    /\ args.mini_batch_size = Some(2)

\* C6: after a successful construction batch_subdivisions is a positive
\* integer with batch_subdivisions * mini_batch_size = batch_size; a requested
\* mini_batch_size that is absent or larger than batch_size is stored as
\* batch_size, with batch_subdivisions = 1.
C6_SubdivisionsExact ==
    phase = "built" =>
        /\ params[Name("batch_size")] = args.batch_size
        /\ batch_subdivisions(params) >= 1
        /\ batch_subdivisions(params) * params[Name("mini_batch_size")]
               = params[Name("batch_size")]
        /\ (args.mini_batch_size = None \/ args.mini_batch_size[1] > args.batch_size)
               => /\ params[Name("mini_batch_size")] = args.batch_size
                  /\ batch_subdivisions(params) = 1

C6_Witness ==
    /\ phase = "built"
    /\ args.batch_size = 2
    /\ args.mini_batch_size = Some(3)
    /\ params[Name("mini_batch_size")] = 2
    /\ batch_subdivisions(params) = 1

\* C10: S.save(path) followed by T.load(path), T a fresh store with the
\* shapes of S: every field of S that the record holds (every field not
\* excluded from serialization, the counters, batch_size, mini_batch_size and
\* the serializable extra fields among them) has in T the value it has in S,
\* the network, optimizers and schedulers of T have the state of those of S,
\* and every excluded field of T keeps the value it had before the load.
\* Exclusion is the one the record was written with; T has the same one after
\* the load.
C10_Restored ==
    /\ \A n \in DOMAIN params :
          ~Excluded(params, n) => n \in DOMAIN fresh' /\ fresh'[n] = params[n]
    /\ \A n \in DOMAIN fresh :
          Excluded(params, n) => fresh'[n] = fresh[n]
    /\ \A n \in DOMAIN fresh' : Excluded(fresh', n) <=> Excluded(params, n)
    /\ heap'[fresh'[Name("network")]] = heap[params[Name("network")]]
    /\ \A f \in {Name("optimizers"), Name("schedulers")} :
          fresh'[f] # None =>
              \A i \in 1..Len(fresh'[f][1]) :
                  heap'[fresh'[f][1][i]] = heap[params[f][1][i]]
    /\ \A o \in ObjectsOf(params) : heap'[o] = heap[o]

C10_RoundTrip == [][(~loaded /\ loaded') => C10_Restored]_vars

C10_Witness ==
    /\ loaded
    /\ params[Name("epoch")] = 1
    /\ params[Name("batch")] = 1
    /\ fresh[Name("epoch")] = 1
    /\ fresh[Name("batch")] = 1
    /\ Name("y") \in DOMAIN params
    /\ Excluded(params, Name("y"))
    /\ Name("y") \in DOMAIN fresh
    /\ fresh[Name("y")] # params[Name("y")]
    /\ fresh[Name("batch_size")] = 2
    /\ heap["optT2"] = heap["optS2"]
    /\ heap["optT2"] # heap["optT1"]
    /\ heap["optT2"] > 0

\* the store as it stands when the first n extra fields have been processed
StoreAfter(n) ==
    HyperParameters("netS", args.optimizers, args.schedulers, args.batch_size,
                    args.mini_batch_size, SubSeq(args.kwargs, 1, n)).self

\* the name the n-th extra field is stored under (its marker stripped)
FieldOf(n) ==
    IF StartsWithUnderscore(args.kwargs[n][1])
    THEN StripFirst(args.kwargs[n][1]) ELSE args.kwargs[n][1]

\* the n-th extra field collides with a field the store already has
Collides(n) == FieldOf(n) \in DOMAIN StoreAfter(n - 1)

\* C11 as stated: an extra field whose unprefixed name collides with an
\* existing field leaves that field's value as it was, and the field is in
\* the set of non-serialized fields after the collision exactly if it was
\* before it.
C11_CollisionKeepsValueAndFlag ==
    phase = "built" =>
        \A n \in 1..Len(args.kwargs) :
            Collides(n) =>
                /\ StoreAfter(n)[FieldOf(n)] = StoreAfter(n - 1)[FieldOf(n)]
                /\ Excluded(StoreAfter(n), FieldOf(n))
                       <=> Excluded(StoreAfter(n - 1), FieldOf(n))

(***************************************************************************)
(* Claims about the attribute bridge.                                      *)
(***************************************************************************)
\* a write has just been made on the constructed engine of a name that is not
\* native to the engine and exists on the store
BridgeWrite ==
    /\ Len(writes') = Len(writes) + 1
    /\ Last(writes').name \notin Dir(own)
    /\ HasAttr(params, Last(writes').name)

\* the write reached the store: the store has the value, the engine has no
\* field of that name, and reading through the engine gives the value
Redirected ==
    /\ ~Last(writes').raised
    /\ Last(writes').name \in DOMAIN params'
    /\ params'[Last(writes').name] = Last(writes').value
    /\ own' = own
    /\ EngineGetAttr(own', params', Last(writes').name) = Some(Last(writes').value)

\* the loop's counter updates land on the store and leave the engine as it was
CountersOnStore ==
    /\ (pc = "epoch_start" /\ pc' = "for")
           => (own' = own /\ params' = SetAttr(params, Name("epoch"), params[Name("epoch")] + 1))
    /\ (pc = "batch_start" /\ pc' = "process_batch")
           => (own' = own /\ params' = SetAttr(params, Name("batch"), params[Name("batch")] + 1))
    /\ (pc = "process_batch" /\ pc' = "for")
           => (own' = own /\ params' = SetAttr(params, Name("batch"), params[Name("batch")] - 1))

\* construction leaves the store as it was: the engine holds the attributes
\* of lines 44-55, _init_done = True, and each extra field that named nothing
\* the engine or the store already had
ConstructionLocal ==
    (pc = "new" /\ pc' = "idle") =>
        /\ params' = params
        /\ own'[InitDoneAttr] = TRUE
        /\ \A i \in 1..Len(EngineFields) : EngineFields[i] \in DOMAIN own'
        /\ \E kw \in BridgeEngineKwargs :
              LET set == {i \in 1..Len(kw) : ~HasAttr(params, kw[i][1])
                                             /\ kw[i][1] \notin EngineClassAttrs}
              IN  /\ DOMAIN own' = {EngineFields[i] : i \in 1..Len(EngineFields)}
                                       \cup {InitDoneAttr} \cup {kw[i][1] : i \in set}
                  /\ \A i \in set : own'[kw[i][1]] = kw[i][2]

\* C12 as stated: after construction, every write through the engine of a
\* name that is not native to it and exists on the store changes the store's
\* value and creates no field on the engine; the loop's counter updates are on
\* the store; writes during construction stay on the engine.
C12_WriteRedirected ==
    [][/\ BridgeWrite => Redirected
       /\ CountersOnStore
       /\ ConstructionLocal]_vars

\* C12 amended: as stated for every such name that is a field of the store or
\* one of its method names (the store then gets a field of that name); a
\* write of batch_subdivisions, which the store computes and does not let be
\* set, is passed to the store as well, fails there, and changes neither the
\* store nor the engine.
C12_WriteRedirectedUnlessReadOnly ==
    [][/\ (BridgeWrite /\ Last(writes').name \notin ReadOnly) => Redirected
       /\ (BridgeWrite /\ Last(writes').name \in ReadOnly)
              => (Last(writes').raised /\ params' = params /\ own' = own)
       /\ CountersOnStore
       /\ ConstructionLocal]_vars

\* batch was written through the engine (7), the loop then counted on from
\* it on the store, and the engine has its own extra field only
C12_Witness ==
    /\ pc = "done"
    /\ Len(writes) = 2
    /\ writes[1] = [name |-> Name("batch_subdivisions"), value |-> 7, raised |-> TRUE]
    /\ writes[2] = [name |-> Name("batch"), value |-> 7, raised |-> FALSE]
    /\ params[Name("batch")] = 8
    /\ params[Name("epoch")] = 1
    /\ Name("batch") \notin DOMAIN own
    /\ Name("epoch") \notin DOMAIN own
    /\ Name("w") \in DOMAIN own
    /\ Name("sigint") \in DOMAIN params

(***************************************************************************)
(* Claims about the interrupt handler of the process.                      *)
(***************************************************************************)
\* C20: constructing an engine makes its handler the process's handler; with
\* two engines constructed, a signal sets the flag of the one constructed
\* last and leaves the flag of the other as it was, so while the second
\* engine holds the handler the flag of the first one does not change, and the
\* first one's loop returns only when its quit() returned True or its own
\* flag is set.
C20_HandlerOfLastConstructed ==
    /\ [][(pc = "new" /\ pc' = "idle") => (handler' = "engine" /\ ~sigint')]_vars
    /\ [][(other = None /\ other' # None) => (handler' = "other" /\ other' = Some(FALSE))]_vars
    /\ [][handler' # handler => (pc' # pc \/ other' # other)]_vars
    /\ [][(signals' # signals /\ pc # "new" /\ other # None) =>
              IF handler = "other"
              THEN other' = Some(TRUE) /\ sigint' = sigint
              ELSE sigint' /\ other' = other]_vars
    /\ [][(handler = "other" /\ pc # "new") => sigint' = sigint]_vars
    /\ [][(pc' = "done" /\ pc # "done") => (quitRet \/ sigint)]_vars

\* the second engine was constructed last and took both signals; the first
\* engine's loop ran on through them and ended on its own quit()
C20_Witness ==
    /\ pc = "done"
    /\ handler = "other"
    /\ other = Some(TRUE)
    /\ ~sigint
    /\ signals = 2
    /\ notices = 1
    /\ quitRet
    /\ TrainCount = 2
    /\ Epoch = 2

====
